---- MODULE Spec2Model ----
\* State-machine model of RemoteLUKSVault (src/luks_remote.py): the session
\* fields, the four workflow methods connect_ssh, mount_luks, unmount and
\* disconnect, and the external commands they issue.  Every external command
\* is an input: its outcome is drawn from the outcomes the call site can see.
\*
\* Spec drives the four methods in any order.  SpecRun is one execution of
\* run(), from the dependency check to the end of the process.  SpecCreate is
\* the new-profile dialogue of run() up to save_config.  SpecStore drives
\* save_config and load_configs on the configuration file.
EXTENDS Naturals, Sequences, FiniteSets, TLC

VARIABLES
    ssh_config,   \* self.ssh_config: None or the profile bound by connect_ssh
    luks_config,  \* self.luks_config: None or the profile bound by mount_luks
    connected,    \* self.connected
    mounted,      \* self.mounted
    op,           \* the method that ran last
    arg,          \* the config argument it was called with (None if it takes none)
    ret,          \* how it ended: "True", "False", "None" or "raise"
    calls,        \* the external commands it issued, in order, with their outcomes
    pc,           \* run(): the statement it is at ("none" when run() is not executing)
    run_config,   \* run(): its local variable config
    exit_status,  \* <<>> while the process lives, <<n>> once it ended with status n
    log,          \* run(): the methods it called so far, each with result and commands
    store,        \* CONFIG_FILE: whether it exists and the sections written to it
    form,         \* run(): the answers collected for a new profile
    saved,        \* the last save_config call: name, config and how it ended
    loaded        \* the list the last load_configs returned

sessionVars == <<ssh_config, luks_config, connected, mounted, op, arg, ret, calls>>

runVars == <<pc, run_config, exit_status, log>>

configVars == <<store, form, saved, loaded>>

vars == <<ssh_config, luks_config, connected, mounted, op, arg, ret, calls,
          pc, run_config, exit_status, log, store, form, saved, loaded>>

-----------------------------------------------------------------------------
\* Values

\* Python's None for the two Optional[Dict] fields.
None == [none |-> TRUE]

\* Connection profiles as run() builds them (name + ssh fields + luks fields).
\* The third one carries a port that int() rejects; get_ssh_credentials accepts
\* any text for the port.
Profiles ==
    { [name |-> "home", hostname |-> "203.0.113.5", port |-> "2222",
       username |-> "alice", password |-> "pw1", device |-> "/dev/sdb1",
       mapper |-> "vault1", mount_point |-> "/mnt/vault"],
      [name |-> "office", hostname |-> "198.51.100.7", port |-> "22",
       username |-> "bob", password |-> "pw2", device |-> "/dev/sdc1",
       mapper |-> "encrypted_vault", mount_point |-> "/mnt/encrypted"],
      [name |-> "typo", hostname |-> "198.51.100.9", port |-> "ssh",
       username |-> "carol", password |-> "pw3", device |-> "/dev/sdd1",
       mapper |-> "encrypted_vault", mount_point |-> "/mnt/encrypted"] }

\* int(config['port']) succeeds on decimal text and raises ValueError otherwise.
PortIsInt(port) == port \in {"22", "2222"}

\* Outcomes of subprocess.run without a timeout: exit status 0 (for the echo
\* test: marker present), non-zero status (marker absent), or an exception
\* raised by the invocation itself.
RunOutcome == {"ok", "fail", "exc"}

\* subprocess.run(..., timeout=30) can also raise TimeoutExpired.
SshfsOutcome == RunOutcome \cup {"timeout"}

\* A viewer is not installed (shutil.which is None), launches, or Popen raises.
ViewerOutcome == {"absent", "ok", "exc"}

Call(cmd, args, out) == [cmd |-> cmd, args |-> args, out |-> out]

\* The session fields as one record, and the result of running a method.
Session == [ssh_config |-> ssh_config, luks_config |-> luks_config,
            connected |-> connected, mounted |-> mounted]

Result(s, r, c) == [s |-> s, ret |-> r, calls |-> c]

-----------------------------------------------------------------------------
\* __init__

Constructed ==
    /\ ssh_config = None
    /\ luks_config = None
    /\ connected = FALSE
    /\ mounted = FALSE
    /\ op = "init"
    /\ arg = None
    /\ ret = "None"
    /\ calls = <<>>

\* No configuration file yet, nothing asked, saved or loaded.
NoStore == [exists |-> FALSE, defaults |-> <<>>, sections |-> <<>>]

ConfigUntouched ==
    /\ store = NoStore
    /\ form = None
    /\ saved = None
    /\ loaded = <<>>

Init ==
    /\ Constructed
    /\ pc = "none"
    /\ run_config = None
    /\ exit_status = <<>>
    /\ log = <<>>
    /\ ConfigUntouched

-----------------------------------------------------------------------------
\* connect_ssh

\* check_port_open: True only when connect_ex returns 0; an exception is
\* caught inside and gives False.
check_port_open_excAsOpen(out) == out # "fail"

check_port_open(out) == out = "ok"

\* The remote cryptsetup check passes when the command's return code is 0.
cryptsetup_found_unchecked(out) == TRUE

cryptsetup_found(out) == out = "ok"

connect_ssh_noBind(s, config, o) ==
    LET probe == Call("connect_ex", <<config.hostname, config.port>>, o.probe)
        echo  == Call("ssh_echo", <<config.username, config.hostname, config.port>>, o.auth)
        tool  == Call("ssh_which_cryptsetup", <<config.username, config.hostname, config.port>>, o.tool)
    IN  IF ~PortIsInt(config.port) THEN Result(s, "False", <<>>)
        ELSE IF ~check_port_open(o.probe) THEN Result(s, "False", <<probe>>)
        ELSE IF o.auth # "ok" THEN Result(s, "False", <<probe, echo>>)
        ELSE IF o.tool = "exc" \/ ~cryptsetup_found(o.tool)
             THEN Result(s, "False", <<probe, echo, tool>>)
        ELSE Result([s EXCEPT !.connected = TRUE], "True", <<probe, echo, tool>>)

\* o.probe, o.auth, o.tool: outcomes of the socket probe, the echo test and
\* the cryptsetup check.
connect_ssh(s, config, o) ==
    LET probe == Call("connect_ex", <<config.hostname, config.port>>, o.probe)
        echo  == Call("ssh_echo", <<config.username, config.hostname, config.port>>, o.auth)
        tool  == Call("ssh_which_cryptsetup", <<config.username, config.hostname, config.port>>, o.tool)
    IN  IF ~PortIsInt(config.port) THEN Result(s, "False", <<>>)
        ELSE IF ~check_port_open(o.probe) THEN Result(s, "False", <<probe>>)
        ELSE IF o.auth # "ok" THEN Result(s, "False", <<probe, echo>>)
        ELSE IF o.tool = "exc" \/ ~cryptsetup_found(o.tool)
             THEN Result(s, "False", <<probe, echo, tool>>)
        ELSE Result([s EXCEPT !.ssh_config = config, !.connected = TRUE],
                    "True", <<probe, echo, tool>>)

ConnectOracles ==
    [probe : RunOutcome, auth : RunOutcome, tool : RunOutcome]

Effect(name, config, r) ==
    /\ ssh_config' = r.s.ssh_config
    /\ luks_config' = r.s.luks_config
    /\ connected' = r.s.connected
    /\ mounted' = r.s.mounted
    /\ op' = name
    /\ arg' = config
    /\ ret' = r.ret
    /\ calls' = r.calls

Apply(name, config, r) ==
    /\ Effect(name, config, r)
    /\ UNCHANGED runVars
    /\ UNCHANGED configVars

ConnectSsh ==
    \E config \in Profiles, o \in ConnectOracles :
        Apply("connect_ssh", config, connect_ssh(Session, config, o))

-----------------------------------------------------------------------------
\* remote_unmount, remote_luks_close

\* Both build the command from self.ssh_config inside the try block: with no
\* profile bound the subscript raises, nothing is issued and False is returned.
remote_unmount(s, mount_point, out) ==
    IF s.ssh_config = None THEN [ok |-> FALSE, calls |-> <<>>]
    ELSE [ok |-> out = "ok",
          calls |-> <<Call("remote_umount", <<mount_point>>, out)>>]

remote_luks_close(s, mapper, out) ==
    IF s.ssh_config = None THEN [ok |-> FALSE, calls |-> <<>>]
    ELSE [ok |-> out = "ok",
          calls |-> <<Call("luksClose", <<mapper>>, out)>>]

-----------------------------------------------------------------------------
\* open_file_manager

FILE_MANAGERS == <<"thunar", "dolphin", "nautilus", "pcmanfm", "nemo">>

\* The loop over the preferred viewers from position i: one that is not
\* installed is skipped, the first that launches ends the loop, one whose
\* Popen raises is reported and the loop continues.
RECURSIVE launch_viewer(_, _)
launch_viewer(i, viewers) ==
    IF i > Len(FILE_MANAGERS) THEN <<>>
    ELSE IF viewers[i] = "absent" THEN launch_viewer(i + 1, viewers)
    ELSE IF viewers[i] = "ok" THEN <<Call("Popen", <<FILE_MANAGERS[i]>>, "ok")>>
    ELSE <<Call("Popen", <<FILE_MANAGERS[i]>>, "exc")>> \o launch_viewer(i + 1, viewers)

\* Without DISPLAY nothing is launched.  Returns the commands issued; the
\* method returns None and never raises.
open_file_manager(display, viewers) ==
    IF ~display THEN <<>> ELSE launch_viewer(1, viewers)

-----------------------------------------------------------------------------
\* mount_luks

\* "if result.returncode != 0" after the luksOpen command.
unlock_failed_unchecked(out) == FALSE

unlock_failed(out) == out = "fail"

\* Compensation when the remote mount command returned non-zero.
remote_mount_rollback_none(s, config, o) == <<>>

remote_mount_rollback(s, config, o) ==
    remote_luks_close(s, config.mapper, o.close).calls

\* Compensation when sshfs returned non-zero.
bridge_rollback_reversed(s, config, o) ==
    remote_luks_close(s, config.mapper, o.close).calls
        \o remote_unmount(s, config.mount_point, o.umount).calls

bridge_rollback(s, config, o) ==
    remote_unmount(s, config.mount_point, o.umount).calls
        \o remote_luks_close(s, config.mapper, o.close).calls

mount_luks_viewerFailureFails(s, config, o) ==
    LET open   == Call("luksOpen", <<config.device, config.mapper>>, o.open)
        rmount == Call("remote_mount", <<config.mapper, config.mount_point>>, o.mount)
        sshfs  == Call("sshfs", <<config.mount_point>>, o.sshfs)
        viewer == open_file_manager(o.display, o.viewers)
    IN  IF ~s.connected THEN Result(s, "False", <<>>)
        ELSE IF s.ssh_config = None THEN Result(s, "False", <<>>)
        ELSE IF o.open = "exc" \/ unlock_failed(o.open)
             THEN Result(s, "False", <<open>>)
        ELSE IF o.mount = "exc" THEN Result(s, "False", <<open, rmount>>)
        ELSE IF o.mount = "fail"
             THEN Result(s, "False",
                         <<open, rmount>> \o remote_mount_rollback(s, config, o))
        ELSE IF o.sshfs \in {"timeout", "exc"}
             THEN Result(s, "False", <<open, rmount, sshfs>>)
        ELSE IF o.sshfs = "fail"
             THEN Result(s, "False",
                         <<open, rmount, sshfs>> \o bridge_rollback(s, config, o))
        ELSE Result([s EXCEPT !.luks_config = config, !.mounted = TRUE],
                    IF \E i \in 1..Len(viewer) : viewer[i].out = "exc"
                    THEN "False" ELSE "True",
                    <<open, rmount, sshfs>> \o viewer)

\* o.open, o.mount, o.sshfs: outcomes of the three mount sub-steps; o.umount,
\* o.close: outcomes of the compensating commands; o.display, o.viewers: the
\* environment open_file_manager sees.  The passphrase prompt is not modelled.
mount_luks(s, config, o) ==
    LET open   == Call("luksOpen", <<config.device, config.mapper>>, o.open)
        rmount == Call("remote_mount", <<config.mapper, config.mount_point>>, o.mount)
        sshfs  == Call("sshfs", <<config.mount_point>>, o.sshfs)
    IN  IF ~s.connected THEN Result(s, "False", <<>>)
        ELSE IF s.ssh_config = None THEN Result(s, "False", <<>>)
        ELSE IF o.open = "exc" \/ unlock_failed(o.open)
             THEN Result(s, "False", <<open>>)
        ELSE IF o.mount = "exc" THEN Result(s, "False", <<open, rmount>>)
        ELSE IF o.mount = "fail"
             THEN Result(s, "False",
                         <<open, rmount>> \o remote_mount_rollback(s, config, o))
        ELSE IF o.sshfs \in {"timeout", "exc"}
             THEN Result(s, "False", <<open, rmount, sshfs>>)
        ELSE IF o.sshfs = "fail"
             THEN Result(s, "False",
                         <<open, rmount, sshfs>> \o bridge_rollback(s, config, o))
        ELSE Result([s EXCEPT !.luks_config = config, !.mounted = TRUE], "True",
                    <<open, rmount, sshfs>>
                        \o open_file_manager(o.display, o.viewers))

\* An outcome is drawn for a command only on the paths that issue it.
Drawn(issued, outcomes, unused) == IF issued THEN outcomes ELSE {unused}

NoViewers == [i \in 1..Len(FILE_MANAGERS) |-> "absent"]

\* What open_file_manager can find: a viewer after the one that launched is
\* never probed.
ViewerOutcomes ==
    { v \in [1..Len(FILE_MANAGERS) -> ViewerOutcome] :
        \A i, j \in 1..Len(FILE_MANAGERS) : (i < j /\ v[i] = "ok") => v[j] = "absent" }

MountLuks ==
    \E config \in Profiles :
    \E a \in Drawn(connected, RunOutcome, "ok") :
    \E b \in Drawn(a = "ok", RunOutcome, "ok") :
    \E c \in Drawn(a = "ok" /\ b = "ok", SshfsOutcome, "ok") :
    \E u \in Drawn(c = "fail", RunOutcome, "ok") :
    \E k \in Drawn(b = "fail" \/ c = "fail", RunOutcome, "ok") :
    \E d \in Drawn(a = "ok" /\ b = "ok" /\ c = "ok", BOOLEAN, FALSE) :
    \E v \in Drawn(d, ViewerOutcomes, NoViewers) :
        Apply("mount_luks", config,
              mount_luks(Session, config,
                         [open |-> a, mount |-> b, sshfs |-> c, umount |-> u,
                          close |-> k, display |-> d, viewers |-> v]))

-----------------------------------------------------------------------------
\* unmount

UMOUNT_CMDS == << <<"fusermount", "-u">>, <<"umount", "-l">>,
                  <<"umount">>, <<"sudo", "umount">> >>

RECURSIVE local_unmount_noBreak(_, _)
local_unmount_noBreak(i, outs) ==
    IF i > Len(UMOUNT_CMDS)
    THEN [calls |-> <<>>, unmounted |-> FALSE, raised |-> FALSE]
    ELSE LET c == Call("local_umount", UMOUNT_CMDS[i], outs[i]) IN
         IF outs[i] = "exc"
         THEN [calls |-> <<c>>, unmounted |-> FALSE, raised |-> TRUE]
         ELSE LET r == local_unmount_noBreak(i + 1, outs) IN
              [calls |-> <<c>> \o r.calls,
               unmounted |-> (outs[i] = "ok") \/ r.unmounted,
               raised |-> r.raised]

\* The loop over the local unmount commands from position i.  subprocess.run
\* is called outside any try block: an exception leaves the loop and the method.
RECURSIVE local_unmount(_, _)
local_unmount(i, outs) ==
    IF i > Len(UMOUNT_CMDS)
    THEN [calls |-> <<>>, unmounted |-> FALSE, raised |-> FALSE]
    ELSE LET c == Call("local_umount", UMOUNT_CMDS[i], outs[i]) IN
         IF outs[i] = "exc"
         THEN [calls |-> <<c>>, unmounted |-> FALSE, raised |-> TRUE]
         ELSE IF outs[i] = "ok"
         THEN [calls |-> <<c>>, unmounted |-> TRUE, raised |-> FALSE]
         ELSE LET r == local_unmount(i + 1, outs) IN
              [calls |-> <<c>> \o r.calls, unmounted |-> r.unmounted,
               raised |-> r.raised]

unmount_ignoresLocal(s, o) ==
    IF ~s.mounted THEN Result(s, "None", <<>>)
    ELSE LET l == local_unmount(1, o.local) IN
         IF l.raised \/ s.luks_config = None THEN Result(s, "raise", l.calls)
         ELSE LET ru == remote_unmount(s, s.luks_config.mount_point, o.umount)
                  lc == remote_luks_close(s, s.luks_config.mapper, o.close)
                  success == ru.ok /\ lc.ok
              IN  Result([s EXCEPT !.mounted = FALSE],
                         IF success THEN "True" ELSE "False",
                         l.calls \o ru.calls \o lc.calls)

unmount_closeFirst(s, o) ==
    IF ~s.mounted THEN Result(s, "None", <<>>)
    ELSE LET l == local_unmount(1, o.local) IN
         IF l.raised \/ s.luks_config = None THEN Result(s, "raise", l.calls)
         ELSE LET ru == remote_unmount(s, s.luks_config.mount_point, o.umount)
                  lc == remote_luks_close(s, s.luks_config.mapper, o.close)
                  success == l.unmounted /\ ru.ok /\ lc.ok
              IN  Result([s EXCEPT !.mounted = FALSE],
                         IF success THEN "True" ELSE "False",
                         l.calls \o lc.calls \o ru.calls)

\* o.local: outcomes of the local unmount commands; o.umount, o.close:
\* outcomes of the remote unmount and of luksClose.
unmount(s, o) ==
    IF ~s.mounted THEN Result(s, "None", <<>>)
    ELSE LET l == local_unmount(1, o.local) IN
         IF l.raised \/ s.luks_config = None THEN Result(s, "raise", l.calls)
         ELSE LET ru == remote_unmount(s, s.luks_config.mount_point, o.umount)
                  lc == remote_luks_close(s, s.luks_config.mapper, o.close)
                  success == l.unmounted /\ ru.ok /\ lc.ok
              IN  Result([s EXCEPT !.mounted = FALSE],
                         IF success THEN "True" ELSE "False",
                         l.calls \o ru.calls \o lc.calls)

NoUnmountOracle ==
    [local |-> [i \in 1..Len(UMOUNT_CMDS) |-> "ok"], umount |-> "ok", close |-> "ok"]

\* Outcomes of the local unmount commands: a command after the one that ended
\* the loop is not issued and has no outcome to draw.
LocalOutcomes ==
    { l \in [1..Len(UMOUNT_CMDS) -> RunOutcome] :
        \A i, j \in 1..Len(UMOUNT_CMDS) : (i < j /\ l[i] # "fail") => l[j] = "ok" }

UnmountOracles ==
    { o \in [local : LocalOutcomes, umount : RunOutcome, close : RunOutcome] :
        (\E i \in 1..Len(UMOUNT_CMDS) : o.local[i] = "exc")
            => (o.umount = "ok" /\ o.close = "ok") }

Unmount ==
    \E o \in IF mounted THEN UnmountOracles ELSE {NoUnmountOracle} :
        Apply("unmount", None, unmount(Session, o))

-----------------------------------------------------------------------------
\* disconnect

disconnect_noUnwind(s, o) ==
    Result([s EXCEPT !.connected = FALSE], "None", <<>>)

disconnect_keepsOnFailure(s, o) ==
    LET u == IF s.mounted THEN unmount(s, o) ELSE Result(s, "None", <<>>) IN
    IF u.ret = "raise" THEN u
    ELSE IF u.ret = "False" THEN Result(u.s, "None", u.calls)
    ELSE Result([u.s EXCEPT !.connected = FALSE], "None", u.calls)

\* An exception out of unmount propagates: connected is not cleared.
disconnect(s, o) ==
    LET u == IF s.mounted THEN unmount(s, o) ELSE Result(s, "None", <<>>) IN
    IF u.ret = "raise" THEN u
    ELSE Result([u.s EXCEPT !.connected = FALSE], "None", u.calls)

Disconnect ==
    \E o \in IF mounted THEN UnmountOracles ELSE {NoUnmountOracle} :
        Apply("disconnect", None, disconnect(Session, o))

-----------------------------------------------------------------------------
Next ==
    \/ ConnectSsh
    \/ MountLuks
    \/ Unmount
    \/ Disconnect


Spec == Init /\ [][Next]_vars

-----------------------------------------------------------------------------
\* run()

REQUIRED_COMMANDS == {"sshpass", "sshfs", "fusermount", "umount"}

\* Where run() goes after a statement: the next statement, or the end of the
\* process with a status.
Goto(next) == [pc |-> next, exit |-> <<>>]

Exit(status) == [pc |-> "exited", exit |-> <<status>>]

\* check_dependencies: sys.exit(1) when shutil.which finds a command missing.
check_dependencies(missing) ==
    IF missing # {} THEN Exit(1) ELSE Goto("select_config")

\* "if not self.connect_ssh(config): ... sys.exit(1)"
after_connect(r) ==
    IF r = "True" THEN Goto("mount_luks") ELSE Exit(1)

\* "if not self.mount_luks(config): self.disconnect(); sys.exit(1)"
after_mount(r) ==
    IF r = "True" THEN Goto("hold") ELSE Goto("cleanup")

after_disconnect_alwaysZero(at, r) ==
    IF r = "raise" THEN Exit(1) ELSE Exit(0)

\* disconnect at `at`: after a failed mount sys.exit(1) follows it, after the
\* hold run() returns and the process ends with status 0.  An exception that
\* leaves disconnect ends the process with a traceback and status 1.
after_disconnect(at, r) ==
    IF r = "raise" THEN Exit(1)
    ELSE IF at = "cleanup" THEN Exit(1)
    ELSE Exit(0)

Logged(name, r, c) == [op |-> name, ret |-> r, calls |-> c]

Step(to, entry) ==
    /\ pc' = to.pc
    /\ exit_status' = to.exit
    /\ log' = Append(log, entry)
    /\ UNCHANGED configVars

InitRun ==
    /\ Constructed
    /\ pc = "check_dependencies"
    /\ run_config = None
    /\ exit_status = <<>>
    /\ log = <<>>
    /\ ConfigUntouched

RunCheckDependencies ==
    /\ pc = "check_dependencies"
    /\ \E missing \in SUBSET REQUIRED_COMMANDS :
          LET to == check_dependencies(missing) IN
          Step(to, Logged("check_dependencies",
                          IF to.pc = "exited" THEN "exit" ELSE "None", <<>>))
    /\ UNCHANGED <<sessionVars, run_config>>

\* Lines 388-404 leave a profile in config: one selected from the store or one
\* just created and saved.
RunSelectConfig ==
    /\ pc = "select_config"
    /\ \E config \in Profiles :
          /\ run_config' = config
          /\ Step(Goto("connect_ssh"), Logged("select_config", "None", <<>>))
    /\ UNCHANGED sessionVars

RunConnect ==
    /\ pc = "connect_ssh"
    /\ \E o \in ConnectOracles :
          LET r == connect_ssh(Session, run_config, o) IN
          /\ Effect("connect_ssh", run_config, r)
          /\ Step(after_connect(r.ret), Logged("connect_ssh", r.ret, r.calls))
    /\ UNCHANGED run_config

RunMount ==
    /\ pc = "mount_luks"
    /\ \E a \in RunOutcome :
       \E b \in Drawn(a = "ok", RunOutcome, "ok") :
       \E c \in Drawn(a = "ok" /\ b = "ok", SshfsOutcome, "ok") :
       \E u \in Drawn(c = "fail", RunOutcome, "ok") :
       \E k \in Drawn(b = "fail" \/ c = "fail", RunOutcome, "ok") :
       \E d \in Drawn(a = "ok" /\ b = "ok" /\ c = "ok", BOOLEAN, FALSE) :
       \E v \in Drawn(d, ViewerOutcomes, NoViewers) :
          LET r == mount_luks(Session, run_config,
                              [open |-> a, mount |-> b, sshfs |-> c, umount |-> u,
                               close |-> k, display |-> d, viewers |-> v])
          IN  /\ Effect("mount_luks", run_config, r)
              /\ Step(after_mount(r.ret), Logged("mount_luks", r.ret, r.calls))
    /\ UNCHANGED run_config

\* input() returns when the user presses Enter; KeyboardInterrupt is caught.
\* Either way run() goes on to disconnect.  (A closed stdin is not modelled.)
RunHold ==
    /\ pc = "hold"
    /\ \E trigger \in {"enter", "interrupt"} :
          Step(Goto("disconnect"), Logged("input", trigger, <<>>))
    /\ UNCHANGED <<sessionVars, run_config>>

RunDisconnect ==
    /\ pc \in {"cleanup", "disconnect"}
    /\ \E o \in IF mounted THEN UnmountOracles ELSE {NoUnmountOracle} :
          LET r == disconnect(Session, o) IN
          /\ Effect("disconnect", None, r)
          /\ Step(after_disconnect(pc, r.ret), Logged("disconnect", r.ret, r.calls))
    /\ UNCHANGED run_config

NextRun ==
    \/ RunCheckDependencies
    \/ RunSelectConfig
    \/ RunConnect
    \/ RunMount
    \/ RunHold
    \/ RunDisconnect

SpecRun == InitRun /\ [][NextRun]_vars


-----------------------------------------------------------------------------
\* Text.  A text is a sequence of characters; Lit is a literal of the source
\* kept as one unit.

Lit(s) == <<s>>

\* str.strip(): leading and trailing blanks removed.
RECURSIVE LStrip(_)
LStrip(t) == IF t # <<>> /\ Head(t) = " " THEN LStrip(Tail(t)) ELSE t

RECURSIVE RStrip(_)
RStrip(t) ==
    IF t # <<>> /\ t[Len(t)] = " " THEN RStrip(SubSeq(t, 1, Len(t) - 1)) ELSE t

Strip(t) == RStrip(LStrip(t))

-----------------------------------------------------------------------------
\* configparser.ConfigParser as load_configs and save_config use it

KEYS == {"name", "hostname", "port", "username", "password", "device",
         "mapper", "mount_point"}

DEFAULT == Lit("DEFAULT")

\* BasicInterpolation.before_set and the parser's reading of a value: every
\* "%" must be half of a "%%" (the texts here hold no "%(name)s").
RECURSIVE PercentsPaired(_)
PercentsPaired(t) ==
    IF t = <<>> THEN TRUE
    ELSE IF Head(t) # "%" THEN PercentsPaired(Tail(t))
    ELSE Len(t) >= 2 /\ t[2] = "%" /\ PercentsPaired(SubSeq(t, 3, Len(t)))

\* BasicInterpolation.before_get on a value whose percents are paired: each
\* "%%" is read as "%".
RECURSIVE Interpolate(_)
Interpolate(t) ==
    IF t = <<>> THEN <<>>
    ELSE IF Head(t) = "%" THEN <<"%">> \o Interpolate(SubSeq(t, 3, Len(t)))
    ELSE <<Head(t)>> \o Interpolate(Tail(t))

\* The options of one section as the parser reads them: each value stripped.
StripOptions(options) == [k \in DOMAIN options |-> Strip(options[k])]

\* parser.read(CONFIG_FILE): a "[]" line is no section header and makes the
\* parser raise; the value of an option is what follows "=", stripped.
ReadFile(file) ==
    [ok |-> \A i \in 1..Len(file.sections) : file.sections[i].header # <<>>,
     defaults |-> [i \in 1..Len(file.defaults) |->
                      StripOptions(file.defaults[i])],
     sections |-> [i \in 1..Len(file.sections) |->
                      [header |-> file.sections[i].header,
                       options |-> StripOptions(file.sections[i].options)]]]

IndexOf(sections, name) ==
    {i \in 1..Len(sections) : sections[i].header = name}

\* parser[name] = config.  The section is emptied if it exists and created if
\* it does not; the options of a section named "" or DEFAULT go to the
\* defaults (DEFAULT is emptied first, and is never added as a section).
SetSection(parser, name, config) ==
    LET at   == IndexOf(parser.sections, name)
        into == IF at # {} THEN parser.sections
                ELSE IF name = DEFAULT THEN parser.sections
                ELSE Append(parser.sections, [header |-> name, options |-> <<>>])
        inDefaults == name = <<>> \/ name = DEFAULT
        merged == IF parser.defaults = <<>> \/ name = DEFAULT THEN config
                  ELSE [k \in (DOMAIN parser.defaults[1]) \cup (DOMAIN config) |->
                           IF k \in DOMAIN config THEN config[k]
                           ELSE parser.defaults[1][k]]
    IN  [defaults |-> IF inDefaults THEN <<merged>> ELSE parser.defaults,
         sections |-> [i \in 1..Len(into) |->
                          IF into[i].header # name THEN into[i]
                          ELSE [header |-> name,
                                options |-> IF inDefaults THEN <<>> ELSE config]]]

\* save_config(name, config): how it ends and the file it leaves.  An
\* unreadable file or a value with an unpaired "%" raises before the file is
\* opened for writing.
save_config(file, name, config) ==
    LET parser == IF file.exists THEN ReadFile(file)
                  ELSE [ok |-> TRUE, defaults |-> <<>>, sections |-> <<>>]
    IN  IF ~parser.ok THEN [ret |-> "raise", file |-> file]
        ELSE IF \E k \in DOMAIN config : ~PercentsPaired(config[k])
        THEN [ret |-> "raise", file |-> file]
        ELSE LET new == SetSection(parser, name, config) IN
             [ret |-> "None",
              file |-> [exists |-> TRUE, defaults |-> new.defaults,
                        sections |-> new.sections]]

\* dict(config[section]) with cfg['name'] = section: the options of the
\* section over those of DEFAULT, interpolated, under the section's name.
SectionDict(parser, i) ==
    LET own  == parser.sections[i].options
        dflt == IF parser.defaults = <<>> THEN <<>> ELSE parser.defaults[1]
        keys == (DOMAIN own) \cup (DOMAIN dflt) \cup {"name"}
    IN  [k \in keys |->
            IF k = "name" THEN parser.sections[i].header
            ELSE IF k \in DOMAIN own THEN Interpolate(own[k])
            ELSE Interpolate(dflt[k])]

\* load_configs(): the empty list without a file, else one dict per section.
load_configs(file) ==
    IF ~file.exists THEN [ret |-> "list", configs |-> <<>>]
    ELSE LET parser == ReadFile(file) IN
         IF ~parser.ok THEN [ret |-> "raise", configs |-> <<>>]
         ELSE [ret |-> "list",
               configs |-> [i \in 1..Len(parser.sections) |-> SectionDict(parser, i)]]

-----------------------------------------------------------------------------
\* The new-profile dialogue of run(): get_ssh_credentials, get_luks_details
\* and save_config

\* Longest line typed at a prompt, and the characters it is made of.
MaxInput == 2

Typed == UNION {[1..n -> {"a", " "}] : n \in 0..MaxInput}

NotAnswered == [k \in KEYS |-> <<>>]

\* input(prompt).strip() or default
stripped_or(text, default) ==
    IF Strip(text) # <<>> THEN Strip(text) ELSE default

InitCreate ==
    /\ Constructed
    /\ pc = "ask_name"
    /\ run_config = None
    /\ exit_status = <<>>
    /\ log = <<>>
    /\ store = NoStore
    /\ form = NotAnswered
    /\ saved = None
    /\ loaded = <<>>

Answer(key, text, next) ==
    /\ form' = [form EXCEPT ![key] = text]
    /\ pc' = next
    /\ UNCHANGED <<sessionVars, run_config, exit_status, log, store, saved, loaded>>

\* A prompt inside "while True": an empty answer is refused and asked again.
AnswerRequired(key, text, next) ==
    IF text # <<>> THEN Answer(key, text, next) ELSE UNCHANGED vars

\* name = input("Configuration name: ").strip()
AskName ==
    pc = "ask_name" /\ \E text \in Typed : Answer("name", Strip(text), "ask_hostname")

AskHostname ==
    pc = "ask_hostname"
        /\ \E text \in Typed : AnswerRequired("hostname", Strip(text), "ask_port")

AskPort ==
    pc = "ask_port"
        /\ \E text \in Typed :
              Answer("port", stripped_or(text, Lit("22")), "ask_username")

\* username = input("Username: ").strip()
AskUsername ==
    pc = "ask_username"
        /\ \E text \in Typed : Answer("username", Strip(text), "ask_password")

\* getpass.getpass is not stripped.
AskPassword ==
    pc = "ask_password"
        /\ \E text \in Typed : AnswerRequired("password", text, "ask_device")

AskDevice ==
    pc = "ask_device"
        /\ \E text \in Typed : AnswerRequired("device", Strip(text), "ask_mapper")

AskMapper ==
    pc = "ask_mapper"
        /\ \E text \in Typed :
              Answer("mapper", stripped_or(text, Lit("encrypted_vault")),
                     "ask_mount_point")

AskMountPoint ==
    pc = "ask_mount_point"
        /\ \E text \in Typed :
              Answer("mount_point", stripped_or(text, Lit("/mnt/encrypted")),
                     "save_config")

\* self.save_config(name, config); an exception out of it ends the process.
SaveNew ==
    /\ pc = "save_config"
    /\ LET r == save_config(store, form.name, form) IN
       /\ store' = r.file
       /\ saved' = [name |-> form.name, config |-> form, ret |-> r.ret]
       /\ pc' = IF r.ret = "raise" THEN "exited" ELSE "connect_ssh"
       /\ exit_status' = IF r.ret = "raise" THEN <<1>> ELSE <<>>
    /\ UNCHANGED <<sessionVars, run_config, log, form, loaded>>

NextCreate ==
    \/ AskName
    \/ AskHostname
    \/ AskPort
    \/ AskUsername
    \/ AskPassword
    \/ AskDevice
    \/ AskMapper
    \/ AskMountPoint
    \/ SaveNew

SpecCreate == InitCreate /\ [][NextCreate]_vars

-----------------------------------------------------------------------------
\* save_config and load_configs on the configuration file

\* Longest value of a field, and the characters it is made of.
MaxValue == 2

Values == UNION {[1..n -> {"a", " ", "%"}] : n \in 0..MaxValue}

\* Names as run() passes them: stripped text, possibly empty.
StoreNames == {<<"a">>, <<>>, DEFAULT}

\* A profile as run() builds it: the name under "name" and a password as typed.
StoredProfile(name, password) ==
    [name |-> name, hostname |-> <<"a">>, port |-> Lit("22"),
     username |-> <<"a">>, password |-> password, device |-> <<"a">>,
     mapper |-> Lit("encrypted_vault"), mount_point |-> Lit("/mnt/encrypted")]

InitStore ==
    /\ Constructed
    /\ pc = "none"
    /\ run_config = None
    /\ exit_status = <<>>
    /\ log = <<>>
    /\ ConfigUntouched

SaveConfig ==
    /\ \E name \in StoreNames, password \in Values :
          LET config == StoredProfile(name, password)
              r == save_config(store, name, config)
          IN  /\ store' = r.file
              /\ saved' = [name |-> name, config |-> config, ret |-> r.ret]
              /\ op' = "save_config"
              /\ ret' = r.ret
              /\ loaded' = <<>>
    /\ UNCHANGED <<ssh_config, luks_config, connected, mounted, arg, calls,
                   runVars, form>>

LoadConfigs ==
    /\ LET r == load_configs(store) IN
          /\ loaded' = r.configs
          /\ op' = "load_configs"
          /\ ret' = r.ret
    /\ UNCHANGED <<ssh_config, luks_config, connected, mounted, arg, calls,
                   runVars, store, form, saved>>

NextStore ==
    \/ SaveConfig
    \/ LoadConfigs

SpecStore == InitStore /\ [][NextStore]_vars

-----------------------------------------------------------------------------
\* Reading the record of a method's external commands

Issued(c, cmd) == \E i \in 1..Len(c) : c[i].cmd = cmd

TimesIssued(c, cmd) == Cardinality({i \in 1..Len(c) : c[i].cmd = cmd})

\* Unlock and remote mount succeeded and the bridge mount ended with `out`.
BridgeEnded(c, out) ==
    /\ Len(c) >= 3
    /\ c[1].cmd = "luksOpen" /\ c[1].out = "ok"
    /\ c[2].cmd = "remote_mount" /\ c[2].out = "ok"
    /\ c[3].cmd = "sshfs" /\ c[3].out = out

\* Unlock succeeded and the remote mount command returned non-zero.
RemoteMountFailed(c) ==
    /\ Len(c) >= 2
    /\ c[1].cmd = "luksOpen" /\ c[1].out = "ok"
    /\ c[2].cmd = "remote_mount" /\ c[2].out = "fail"

\* The luksOpen command returned non-zero or could not be run.
UnlockFailed(c) ==
    /\ Len(c) >= 1
    /\ c[1].cmd = "luksOpen" /\ c[1].out \in {"fail", "exc"}

\* The two compensating calls at positions 4 and 5: remote unmount of the
\* mount point, then luksClose of the mapper, and nothing else.
RolledBackInOrder(c, config) ==
    /\ Len(c) = 5
    /\ c[4].cmd = "remote_umount" /\ c[4].args = <<config.mount_point>>
    /\ c[5].cmd = "luksClose" /\ c[5].args = <<config.mapper>>

-----------------------------------------------------------------------------
\* C1: in every reachable state, whatever methods were called and however the
\* external commands ended, mounted implies connected.
C1_MountedImpliesConnected == mounted => connected

\* disconnect ran on a mounted session and left it mounted (the unwind raised).
C1_Witness == op = "disconnect" /\ ret = "raise" /\ mounted /\ connected

\* C2: when unlock and remote mount succeeded and sshfs returns non-zero,
\* mount_luks issues exactly two further commands, remote unmount of the mount
\* point and then luksClose of the mapper, returns False and does not set
\* mounted.
C2_BridgeFailureRollsBackInOrder ==
    [][(op' = "mount_luks" /\ BridgeEnded(calls', "fail"))
        => /\ RolledBackInOrder(calls', arg')
           /\ ret' = "False"
           /\ mounted' = mounted]_vars

C2_Witness ==
    /\ op = "mount_luks" /\ BridgeEnded(calls, "fail")
    /\ Len(calls) = 5 /\ ~mounted

\* C3: when unlock and remote mount succeeded and sshfs times out, the same
\* two compensating commands are issued before the failure is reported.
C3_TimeoutRollsBack ==
    (op = "mount_luks" /\ BridgeEnded(calls, "timeout"))
        => RolledBackInOrder(calls, arg)

\* C4: when unlock succeeded and the remote mount command returns non-zero,
\* mount_luks issues exactly one luksClose, on the mapper, and no remote
\* unmount and no sshfs, and does not set mounted.
C4_RemoteMountFailureClosesOnce ==
    [][(op' = "mount_luks" /\ RemoteMountFailed(calls'))
        => /\ Len(calls') = 3
           /\ calls'[3].cmd = "luksClose" /\ calls'[3].args = <<arg'.mapper>>
           /\ TimesIssued(calls', "luksClose") = 1
           /\ ~Issued(calls', "remote_umount")
           /\ ~Issued(calls', "sshfs")
           /\ mounted' = mounted]_vars

C4_Witness ==
    /\ op = "mount_luks" /\ RemoteMountFailed(calls)
    /\ Issued(calls, "luksClose") /\ ~mounted

\* C5: when the luksOpen command fails, it is the only command mount_luks
\* issues (no remote mount, no sshfs, no remote unmount, no luksClose);
\* mount_luks returns False and does not set mounted.
C5_UnlockFailureStopsThere ==
    [][(op' = "mount_luks" /\ UnlockFailed(calls'))
        => /\ Len(calls') = 1
           /\ ret' = "False"
           /\ mounted' = mounted]_vars

C5_Witness ==
    /\ op = "mount_luks" /\ UnlockFailed(calls) /\ calls[1].out = "fail"
    /\ ret = "False" /\ ~mounted

\* C6: an unmount invoked on a mounted session attempts the local unmount, the
\* remote unmount and luksClose, and leaves mounted false, however the
\* commands end.
C6_UnwindAttemptsAllAndClears ==
    [][(mounted /\ op' = "unmount")
        => /\ Issued(calls', "local_umount")
           /\ Issued(calls', "remote_umount")
           /\ Issued(calls', "luksClose")
           /\ ~mounted']_vars

\* C7: no workflow method ends by an exception raised by an external command.
C7_NoExceptionEscapes == ret # "raise"

C9_UnreachableShortCircuits ==
    (op = "connect_ssh" /\ Len(calls) >= 1 /\ calls[1].out # "ok")
        => /\ calls = <<Call("connect_ex", <<arg.hostname, arg.port>>, calls[1].out)>>
           /\ ret = "False"

C9_Witness ==
    /\ op = "connect_ssh" /\ Len(calls) = 1
    /\ calls[1].cmd = "connect_ex" /\ calls[1].out = "fail" /\ ret = "False"

\* C10: connect_ssh returns True exactly when the probe, the echo test and the
\* cryptsetup check all passed, and then the profile is bound and connected is
\* true; otherwise it returns False and leaves every session field as it was.
AllChecksPassed(c) ==
    /\ Len(c) = 3
    /\ c[1].cmd = "connect_ex" /\ c[1].out = "ok"
    /\ c[2].cmd = "ssh_echo" /\ c[2].out = "ok"
    /\ c[3].cmd = "ssh_which_cryptsetup" /\ c[3].out = "ok"

C10_FailedConnectKeepsState ==
    [][op' = "connect_ssh"
        => IF AllChecksPassed(calls')
           THEN ret' = "True" /\ ssh_config' = arg' /\ connected'
           ELSE /\ ret' = "False"
                /\ UNCHANGED <<ssh_config, luks_config, connected, mounted>>]_vars

\* Authentication passed, the remote cryptsetup is missing: still Idle.
C10_Witness ==
    /\ op = "connect_ssh" /\ ret = "False" /\ Len(calls) = 3
    /\ calls[3].out = "fail" /\ ~connected /\ ssh_config = None

-----------------------------------------------------------------------------
\* Reading the record of an unwind (unmount, directly or through disconnect)

Unwound == op \in {"unmount", "disconnect"} /\ calls # <<>>

Succeeded(c, cmd) == \E i \in 1..Len(c) : c[i].cmd = cmd /\ c[i].out = "ok"

\* C12: the flag unmount returns is True exactly when a local unmount
\* command, the remote unmount and luksClose all succeeded; disconnect does
\* nothing with it: whatever the flag, it issues no further command (each
\* remote teardown command at most once) and clears connected.
C12_UnwindFlagIsConjunction ==
    /\ (op = "unmount" /\ ret \in {"True", "False"})
        => ((ret = "True") <=> /\ Succeeded(calls, "local_umount")
                               /\ Succeeded(calls, "remote_umount")
                               /\ Succeeded(calls, "luksClose"))
    /\ (op = "disconnect" /\ ret = "None")
        => /\ ~connected
           /\ TimesIssued(calls, "remote_umount") <= 1
           /\ TimesIssued(calls, "luksClose") <= 1

\* The local and the remote unmount succeeded, luksClose did not.
C12_Witness ==
    /\ op = "unmount" /\ ret = "False"
    /\ Succeeded(calls, "local_umount") /\ Succeeded(calls, "remote_umount")
    /\ Issued(calls, "luksClose") /\ ~Succeeded(calls, "luksClose")

\* C16: the local unmount commands are issued in the order of the list, one
\* after another; none is issued after one that succeeded; when all return
\* non-zero the failure is recorded in the flag and the remote unmount is the
\* next command.
C16_LocalUnmountFallback ==
    Unwound =>
        /\ \A i \in 1..Len(calls) :
              calls[i].cmd = "local_umount"
                  => i <= Len(UMOUNT_CMDS) /\ calls[i].args = UMOUNT_CMDS[i]
        /\ \A i, j \in 1..Len(calls) :
              (i < j /\ calls[i].cmd = "local_umount" /\ calls[j].cmd = "local_umount")
                  => calls[i].out = "fail"
        /\ (\A i \in 1..Len(UMOUNT_CMDS) :
                Len(calls) >= i /\ calls[i].cmd = "local_umount" /\ calls[i].out = "fail")
              => /\ Len(calls) > Len(UMOUNT_CMDS)
                 /\ calls[Len(UMOUNT_CMDS) + 1].cmd = "remote_umount"
                 /\ (op = "unmount" => ret = "False")

\* Every local command returned non-zero and the unwind went on.
C16_Witness ==
    /\ op = "unmount" /\ TimesIssued(calls, "local_umount") = Len(UMOUNT_CMDS)
    /\ ~Succeeded(calls, "local_umount") /\ Issued(calls, "luksClose")

\* C18: in an unwind every local unmount command comes before the remote
\* unmount, and the remote unmount before luksClose; luksClose is not issued
\* without a remote unmount before it.
C18_UnwindOrder ==
    Unwound =>
        /\ \A i, j \in 1..Len(calls) :
              (calls[i].cmd = "local_umount" /\ calls[j].cmd = "remote_umount") => i < j
        /\ \A i, j \in 1..Len(calls) :
              (calls[i].cmd = "remote_umount" /\ calls[j].cmd = "luksClose") => i < j
        /\ \A j \in 1..Len(calls) :
              calls[j].cmd = "luksClose"
                  => \E i \in 1..(j - 1) : calls[i].cmd = "remote_umount"

C18_Witness ==
    /\ op = "unmount" /\ TimesIssued(calls, "local_umount") >= 2
    /\ Issued(calls, "remote_umount") /\ Issued(calls, "luksClose")

\* C17: once the three mount sub-steps succeeded, mount_luks returns True with
\* mounted and connected set and the profile bound, and the only further
\* commands are viewer launches: no remote unmount and no luksClose, whatever
\* open_file_manager finds.
C17_PostMountActionIsHarmless ==
    (op = "mount_luks" /\ BridgeEnded(calls, "ok"))
        => /\ ret = "True" /\ mounted /\ connected /\ luks_config = arg
           /\ \A i \in 4..Len(calls) : calls[i].cmd = "Popen"
           /\ ~Issued(calls, "remote_umount")
           /\ ~Issued(calls, "luksClose")

\* Every viewer that was found failed to launch.
C17_Witness ==
    /\ op = "mount_luks" /\ BridgeEnded(calls, "ok") /\ ret = "True"
    /\ Issued(calls, "Popen") /\ ~Succeeded(calls, "Popen")

\* C20: connected implies ssh_config is bound and mounted implies luks_config
\* is bound; so an unwind never meets an unset reference: it raises only when
\* a local unmount command raised, and otherwise issues both the remote
\* unmount and luksClose.
C20_ReferencesBound ==
    /\ connected => ssh_config # None
    /\ mounted => luks_config # None /\ ssh_config # None
    /\ (Unwound /\ ret = "raise")
        => \E i \in 1..Len(calls) : calls[i].out = "exc"
    /\ (Unwound /\ ret # "raise")
        => Issued(calls, "remote_umount") /\ Issued(calls, "luksClose")

\* An unwind ran to its end on a session bound to a different profile than
\* the one mounted.
C20_Witness ==
    /\ op = "unmount" /\ ret = "True"
    /\ ssh_config # None /\ luks_config # None /\ ssh_config # luks_config

-----------------------------------------------------------------------------
\* Reading the log of run()

Called(name, r) == \E i \in 1..Len(log) : log[i].op = name /\ log[i].ret = r

\* run() waited at the hold; and then a disconnect returned.
Held == \E i \in 1..Len(log) : log[i].op = "input"

HeldAndDisconnected ==
    \E i, j \in 1..Len(log) :
        i < j /\ log[i].op = "input" /\ log[j].op = "disconnect" /\ log[j].ret = "None"

Exited(status) == pc = "exited" /\ exit_status = <<status>>

ExitedNonZero == pc = "exited" /\ Len(exit_status) = 1 /\ exit_status[1] # 0

\* C11 (under SpecRun): a failed dependency check ends the process at once,
\* with a non-zero status and before any command or connection attempt; a
\* failed connect_ssh ends it at once with a non-zero status; after a failed
\* mount_luks only the disconnect follows and the status is non-zero; a run
\* that held and whose disconnect returned ends with status zero.
C11_ExitStatus ==
    /\ Called("check_dependencies", "exit")
        => /\ ExitedNonZero
           /\ \A i \in 1..Len(log) :
                 log[i].op = "check_dependencies" /\ log[i].calls = <<>>
    /\ Called("connect_ssh", "False") => ExitedNonZero
    /\ Called("mount_luks", "False")
        => /\ pc \in {"cleanup", "exited"}
           /\ pc = "exited" => ExitedNonZero
           /\ ~Held
    /\ HeldAndDisconnected => Exited(0)
    /\ pc = "exited" => Len(exit_status) = 1

\* The mount failed, the disconnect ran and the process ended.
C11_Witness ==
    /\ Called("mount_luks", "False") /\ Called("disconnect", "None")
    /\ ExitedNonZero

\* C13 (under SpecRun): a run that held in the Active state ends Idle
\* (mounted and connected both false), whichever trigger ended the hold and
\* however the teardown commands ended.
C13_HoldEndsIdle ==
    (Held /\ pc = "exited") => (~mounted /\ ~connected)

\* C19 (under SpecRun): when the process has ended, every luksOpen that
\* succeeded was followed by a luksClose of the same mapper.
ClosedAfter(i, k) ==
    \/ \E m \in (k + 1)..Len(log[i].calls) :
          /\ log[i].calls[m].cmd = "luksClose"
          /\ log[i].calls[m].args = <<log[i].calls[k].args[2]>>
    \/ \E j \in (i + 1)..Len(log) : \E m \in 1..Len(log[j].calls) :
          /\ log[j].calls[m].cmd = "luksClose"
          /\ log[j].calls[m].args = <<log[i].calls[k].args[2]>>

C19_OpenedIsClosed ==
    pc = "exited" =>
        \A i \in 1..Len(log) : \A k \in 1..Len(log[i].calls) :
            (log[i].calls[k].cmd = "luksOpen" /\ log[i].calls[k].out = "ok")
                => ClosedAfter(i, k)

-----------------------------------------------------------------------------
\* C14 (under SpecCreate): save_config is never called with a profile in
\* which a required field is empty.
C14_NoIncompleteProfileSaved ==
    saved # None => \A k \in KEYS : saved.config[k] # <<>>

\* C15 (under SpecStore): after save_config(name, profile) has returned,
\* load_configs returns a list holding a profile of that name whose every
\* field has the value that was saved.
C15_RoundTrip ==
    (op = "load_configs" /\ saved # None /\ saved.ret = "None")
        => /\ ret = "list"
           /\ \E i \in 1..Len(loaded) :
                 /\ loaded[i].name = saved.name
                 /\ \A k \in KEYS : loaded[i][k] = saved.config[k]
====
